---- MODULE Spec2Model ----
(***************************************************************************)
(* Task lifecycle bridge of the search agent.                              *)
(*                                                                         *)
(*   agents/search_agent/task_manager.py  AgentTaskManager.execute/cancel  *)
(*   agents/search_agent/agent.py         MultiURLBrowser.invoke           *)
(*                                                                         *)
(* Every request handled by the server is one run of execute.  A run calls *)
(* invoke, an asynchronous generator that resolves a session and then      *)
(* turns each event of the reasoning engine into one update; execute turns *)
(* each update into a status event on the event queue.  Runs are asyncio   *)
(* coroutines: they interleave at their await points, which are the        *)
(* boundaries between the actions below.                                   *)
(*                                                                         *)
(* Texts are strings.  A content part whose text is None and one whose     *)
(* text is "" are both falsy for the test at agent.py:164 and are both     *)
(* written "" here.                                                        *)
(***************************************************************************)
EXTENDS Naturals, Sequences, FiniteSets, TLC

\* ------------------------------------------------------------------ bounds
\* Engine events the engine produces at most, over all its invocations.
MaxEvents == 3
\* Content parts an engine event carries at most.
MaxParts == 2

\* Operations of the client shims that are run, one after the other.
MaxCalls == 2
\* Parts the message of a response carries at most.
MaxRespParts == 2

\* The requests the server handles, each one run of execute, numbered in the
\* order they start.
Runs == {1, 2}
\* Context ids a request message can carry (they are also the session ids).
Contexts == {"ctx-1", "ctx-2"}
\* Texts of a content part of an engine event ("" is also None).
PartTexts == {"", "a"}
\* str(e) of the exceptions the engine raises.
ErrorTexts == {"", "boom"}

NoTask == 0
NoSession == "none"

VARIABLES
    pc,          \* pc[r]: where run r of execute stands
    ctxTask,     \* ctxTask[r]: context.current_task of run r (a task id, or NoTask)
    taskId,      \* taskId[r]: task.id of the task run r works on
    contextId,   \* contextId[r]: task.contextId of that task
    session,     \* session[r]: the session invoke resolved for run r
    lookup,      \* lookup[r]: what get_session returned to run r ("found",
                 \* "absent", or "pending" before the lookup)
    sessions,    \* session ids the in-memory session service holds
    creates,     \* creates[s]: create_session calls made for session id s
    engineLog,   \* engineLog[r]: engine events run_async has produced in run r
    updates,     \* updates[r]: updates invoke has yielded in run r
    gen,         \* gen[r]: the generator invoke returned to run r
    err,         \* err[r]: str(e) of the exception run r caught
    queue,       \* queue[r]: the events run r has put on its request's event queue
    tasks,       \* tasks[t]: the context id of task t and the state the latest
                 \* event enqueued for t announces ("none": no such task yet)
    nextId,      \* task ids handed out so far (new_task draws a fresh uuid)
    lastCancel,  \* the last cancel request and how it ended
    \* ---- the client shims (a process that calls a remote agent)
    calls,       \* operations of the client shims started so far
    shim,        \* the operation running, or run last
    agent_name,  \* the agent_name argument of call_agent ("none" for the others)
    cpc,         \* where that operation stands
    card,        \* the agent card it resolved (its name), or NoCard
    lookups,     \* agent card lookups it has made
    sends,       \* message/send requests it has made
    messageId,   \* the messageId of its message (NoId before it is built)
    sentIds,     \* the messageIds of all message/send requests made, in order
    response,    \* the response record it received (empty before)
    outcome,     \* how it ended: the text returned (or printed), or what it raised
    \* ---- the request handler's task store
    store,       \* store[t]: the state the task store holds for task t ("none":
                 \* the store holds no task t)
    consumed,    \* consumed[r]: events of queue[r] the request handler has taken
    \* ---- the start of the server process
    bootpc,      \* where the start of the server stands
    args,        \* the flags --host, --port, --public-url (<<>>: not given)
    environ,     \* os.environ: PORT, PUBLIC_URL, FIRECRAWL_API_KEY (or Unset)
    bind,        \* the host, port and public URL the server uses
    toolEnv,     \* FIRECRAWL_API_KEY in the env handed to the MCP tool process
    bootError    \* what the start raised ("" if nothing)

vars == <<pc, ctxTask, taskId, contextId, session, lookup, sessions, creates,
          engineLog, updates, gen, err, queue, tasks, nextId, lastCancel,
          calls, shim, agent_name, cpc, card, lookups, sends, messageId, sentIds,
          response, outcome, store, consumed,
          bootpc, args, environ, bind, toolEnv, bootError>>

runVars == <<ctxTask, taskId, contextId>>
sessVars == <<session, lookup, sessions, creates>>
genVars == <<engineLog, updates, gen>>
storeVars == <<store, consumed>>
bootVars == <<bootpc, args, environ, bind, toolEnv, bootError>>
serverVars == <<pc, runVars, sessVars, genVars, err, queue, tasks, nextId, lastCancel,
                storeVars, bootVars>>
clientVars == <<calls, shim, agent_name, cpc, card, lookups, sends, messageId, sentIds, response,
                outcome>>

\* ----------------------------------------------------------------- helpers
RECURSIVE SeqsUpTo(_, _)
SeqsUpTo(S, n) ==
    IF n = 0 THEN {<<>>}
    ELSE LET shorter == SeqsUpTo(S, n - 1)
         IN shorter \cup {Append(s, x) : s \in {t \in shorter : Len(t) = n - 1}, x \in S}

Last(s) == s[Len(s)]

RECURSIVE Concat(_)
Concat(s) == IF s = <<>> THEN "" ELSE Head(s) \o Concat(Tail(s))

\* Engine events: is_final_response() and the texts of content.parts.
\* Only a final event's content is read (agent.py:160-165).
EngineEvents ==
    {[final |-> TRUE, parts |-> p] : p \in SeqsUpTo(PartTexts, MaxParts)}
    \cup {[final |-> FALSE, parts |-> <<>>]}

\* ----------------------------------------------------- MultiURLBrowser.invoke
ProgressMessage == "Processing the web crawling request..."

\* The text of the first part instead of the last.
ResponseTextFirstPart(event) ==
    IF event.parts # <<>> /\ Head(event.parts) # ""
    THEN Head(event.parts)
    ELSE ""

\* agent.py:162-165
ResponseText(event) ==
    IF event.parts # <<>> /\ Last(event.parts) # ""
    THEN Last(event.parts)
    ELSE ""

\* agent.py:160-178: the update invoke yields for one engine event
UpdateOf(event) ==
    IF event.final
    THEN [is_task_complete |-> TRUE, content |-> ResponseText(event)]
    ELSE [is_task_complete |-> FALSE, updates |-> ProgressMessage]

\* ------------------------------------------------------------------- events
\* new_task(context.message): a Task in state submitted (task_manager.py:87-88)
TaskEvent(id, ctx) ==
    [kind |-> "task", taskId |-> id, contextId |-> ctx,
     state |-> "submitted", text |-> ""]

\* A status event that carries no context id.
StatusEventNoContext(id, ctx, state, text) ==
    [kind |-> "status", taskId |-> id, contextId |-> "none",
     state |-> state, text |-> text]

\* TaskUpdater.update_status(state, new_agent_text_message(text, contextId, id))
StatusEvent(id, ctx, state, text) ==
    [kind |-> "status", taskId |-> id, contextId |-> ctx,
     state |-> state, text |-> text]

\* A Final update reported like a Progress one.
StateOfUpdateAlwaysWorking(item) == "working"

\* task_manager.py:103-123: the state a consumed update is reported with
StateOfUpdate(item) ==
    IF ~item.is_task_complete THEN "working" ELSE "completed"

\* The default of item.get taken for every update.
TextOfUpdateDefault(item) ==
    IF ~item.is_task_complete THEN "Agent is processing..." ELSE "No content received."

\* task_manager.py:105 and 115: the text a consumed update is reported with
\* (invoke always sets the key, the defaults of item.get are never taken)
TextOfUpdate(item) ==
    IF ~item.is_task_complete THEN item.updates ELSE item.content

\* The loop without its break.
PcAfterUpdateNoBreak(item) == "stream"

\* task_manager.py:124-127: after the completed update the loop is left
PcAfterUpdate(item) ==
    IF item.is_task_complete THEN "sleep" ELSE "stream"

\* The status text being the bare str(e).
ErrorMessageBare(e) == e

\* task_manager.py:132
ErrorMessage(e) == "An error occurred: " \o e

IsTerminal(e) == e.kind = "status" /\ e.state \in {"completed", "failed"}

\* Task ids: every request makes at most one task.
TaskIds == 1..Cardinality(Runs)
\* The tasks that exist.
Tasks == {t \in TaskIds : tasks[t].state # "none"}
\* The events run r has enqueued for task t, in order.
TaskEvents(r, t) == SelectSeq(queue[r], LAMBDA e : e.taskId = t)
\* Enqueueing events evs (all of task t) on the queue of run r.
Enqueue(r, t, evs) ==
    /\ queue' = [queue EXCEPT ![r] = @ \o evs]
    /\ tasks' = IF evs = <<>> THEN tasks
                ELSE [tasks EXCEPT ![t] = [contextId |-> Last(evs).contextId,
                                           state |-> Last(evs).state]]
\* The engine events produced so far, over all runs.
RECURSIVE SumLen(_, _)
SumLen(f, S) ==
    IF S = {} THEN 0
    ELSE LET x == CHOOSE y \in S : TRUE IN Len(f[x]) + SumLen(f, S \ {x})

\* ============================================================ client shims
\*   search_agents_Utils/client.py         main
\*   search_agents_Utils/streamlit_app.py  run_agent_interaction
\*   Scrap_Translate/agent.py              list_agents, call_agent
Shims == {"main", "run_agent_interaction", "call_agent", "list_agents"}
NoCard == "none"
\* The name on the card the agent serves (__main__.py:86).
CardName == "MultiURLBrowser"
\* Names the caller of call_agent can ask for (Scrap_Translate/agent.py:93);
\* the registry URL serves the one card, CardName.
AgentNames == {"MultiURLBrowser", "translator"}
NoId == 0
\* Texts of a text part of a response.
RespTexts == {"", "hello"}
\* client.py:154, streamlit_app.py:77
Sentinel == "No text content found in response or an error occurred."

\* The response records send_message can return.  An optional field is <<>>
\* (None) or <<v>>.  The result is a Task (with a status, whose message is
\* optional) or a Message (without one); a response without a result is an
\* error response; a part is a text part or one without text.
RespParts ==
    {[kind |-> "text", text |-> <<t>>] : t \in RespTexts}
    \cup {[kind |-> "file", text |-> <<>>]}
RespMessages == {[parts |-> p] : p \in SeqsUpTo(RespParts, MaxRespParts)}
RespResults ==
    {[kind |-> "task", status |-> [state |-> st, message |-> m]] :
        st \in {"completed", "failed"},
        m \in {<<>>} \cup {<<x>> : x \in RespMessages}}
    \cup {[kind |-> "message", parts |-> m.parts] : m \in RespMessages}
Responses ==
    {[result |-> <<x>>, error |-> <<>>] : x \in RespResults}
    \cup {[result |-> <<>>, error |-> <<"Internal error">>]}

\* model_dump(mode='json', exclude_none=True): the dict of a record, the
\* fields that are None left out (client.py:150-152, streamlit_app.py:74-75,
\* Scrap_Translate/agent.py:135)
DumpPart(part) ==
    IF part.text = <<>> THEN [kind |-> part.kind]
    ELSE [kind |-> part.kind, text |-> part.text[1]]
DumpParts(parts) == [i \in 1..Len(parts) |-> DumpPart(parts[i])]
DumpStatus(status) ==
    IF status.message = <<>> THEN [state |-> status.state]
    ELSE [state |-> status.state,
          message |-> [role |-> "agent", parts |-> DumpParts(status.message[1].parts)]]
DumpResult(result) ==
    IF result.kind = "task"
    THEN [kind |-> "task", status |-> DumpStatus(result.status)]
    ELSE [kind |-> "message", role |-> "agent", parts |-> DumpParts(result.parts)]
model_dump(resp) ==
    IF resp.result = <<>> THEN [error |-> resp.error[1]]
    ELSE [result |-> DumpResult(resp.result[1])]

\* The text of the last part instead of the first.
PartIndexLast(parts) == Len(parts)

\* client.py:159: the index [0] of the part read
PartIndex(parts) == 1

\* client.py:159, streamlit_app.py:79, Scrap_Translate/agent.py:138:
\* response['result']['status']['message']['parts'][0]['text'], with the
\* KeyError or IndexError of the first access that fails
Extract(d) ==
    IF "result" \notin DOMAIN d THEN [ok |-> FALSE, error |-> "KeyError"]
    ELSE IF "status" \notin DOMAIN d.result THEN [ok |-> FALSE, error |-> "KeyError"]
    ELSE IF "message" \notin DOMAIN d.result.status THEN [ok |-> FALSE, error |-> "KeyError"]
    ELSE LET parts == d.result.status.message.parts
         IN IF parts = <<>> THEN [ok |-> FALSE, error |-> "IndexError"]
            ELSE IF "text" \notin DOMAIN parts[PartIndex(parts)]
                 THEN [ok |-> FALSE, error |-> "KeyError"]
                 ELSE [ok |-> TRUE, text |-> parts[PartIndex(parts)].text]

\* The exceptions the shim catches around the extraction: client.py:155-160
\* and streamlit_app.py:78-80 catch (KeyError, IndexError);
\* Scrap_Translate/agent.py:138 stands in no try block.
Caught(sh) ==
    IF sh \in {"main", "run_agent_interaction"} THEN {"KeyError", "IndexError"}
    ELSE {}

\* client.py:154-167 (the text main prints), streamlit_app.py:77-84,
\* Scrap_Translate/agent.py:135-138
ParseOutcome(sh, resp) ==
    LET x == Extract(model_dump(resp))
    IN IF x.ok THEN [kind |-> "returned", value |-> x.text]
       ELSE IF x.error \in Caught(sh) THEN [kind |-> "returned", value |-> Sentinel]
       ELSE [kind |-> "raised", value |-> x.error]

\* The failure of the lookup swallowed, the operation going on without a card.
CpcAfterResolveFailureGoesOn(sh) == "sending"

\* client.py:96-103, streamlit_app.py:48-52, Scrap_Translate/agent.py:75-82:
\* RuntimeError is raised and nothing catches it
CpcAfterResolveFailure(sh) == "raised"

\* The same messageId on every message.
NewMessageIdFixed(used) == 1

\* client.py:131, streamlit_app.py:61, Scrap_Translate/agent.py:121:
\* uuid4().hex, an id no earlier message has; used are the ids drawn so far
NewMessageId(used) == used + 1

ClientInit ==
    /\ calls = 0
    /\ shim = "none"
    /\ agent_name = "none"
    /\ cpc = "idle"
    /\ card = NoCard
    /\ lookups = 0
    /\ sends = 0
    /\ messageId = NoId
    /\ sentIds = <<>>
    /\ response = <<>>
    /\ outcome = [kind |-> "none", value |-> ""]

\* One of the operations is started, once the one before has ended.
ClientCall ==
    /\ cpc \in {"idle", "returned", "raised"}
    /\ calls < MaxCalls
    /\ calls' = calls + 1
    /\ \E sh \in Shims :
          /\ shim' = sh
          /\ IF sh = "call_agent"
             THEN \E name \in AgentNames : agent_name' = name
             ELSE agent_name' = "none"
    /\ cpc' = "resolving"
    /\ card' = NoCard
    /\ lookups' = 0
    /\ sends' = 0
    /\ messageId' = NoId
    /\ response' = <<>>
    /\ outcome' = [kind |-> "none", value |-> ""]
    /\ UNCHANGED <<sentIds, serverVars>>

\* client.py:87-111, streamlit_app.py:45-68, Scrap_Translate/agent.py:66-88
\* and 98-125: get_agent_card returns the card; list_agents returns it, the
\* other operations build their message.
ResolveOk ==
    /\ cpc = "resolving"
    /\ lookups' = lookups + 1
    /\ card' = CardName
    /\ IF shim = "list_agents"
       THEN /\ cpc' = "returned"
            /\ outcome' = [kind |-> "returned", value |-> CardName]
            /\ messageId' = messageId
       ELSE /\ cpc' = "sending"
            /\ outcome' = outcome
            /\ messageId' = NewMessageId(calls - 1)
    /\ UNCHANGED <<calls, shim, agent_name, sends, sentIds, response, serverVars>>

\* client.py:96-103, streamlit_app.py:48-52, Scrap_Translate/agent.py:75-82:
\* get_agent_card raises
ResolveFail ==
    /\ cpc = "resolving"
    /\ lookups' = lookups + 1
    /\ cpc' = CpcAfterResolveFailure(shim)
    /\ outcome' = IF CpcAfterResolveFailure(shim) = "raised"
                  THEN [kind |-> "raised", value |-> "RuntimeError"]
                  ELSE outcome
    /\ UNCHANGED <<calls, shim, agent_name, card, sends, messageId, sentIds, response, serverVars>>

\* client.py:143, streamlit_app.py:71, Scrap_Translate/agent.py:129:
\* send_message returns a response
SendOk ==
    /\ cpc = "sending"
    /\ sends' = sends + 1
    /\ sentIds' = Append(sentIds, messageId)
    /\ \E resp \in Responses : response' = <<resp>>
    /\ cpc' = "parsing"
    /\ UNCHANGED <<calls, shim, agent_name, card, lookups, messageId, outcome, serverVars>>

\* client.py:143, streamlit_app.py:71, Scrap_Translate/agent.py:129:
\* send_message raises (the transport failed); nothing catches it
SendFail ==
    /\ cpc = "sending"
    /\ sends' = sends + 1
    /\ sentIds' = Append(sentIds, messageId)
    /\ cpc' = "raised"
    /\ outcome' = [kind |-> "raised", value |-> "A2AClientHTTPError"]
    /\ UNCHANGED <<calls, shim, agent_name, card, lookups, messageId, response, serverVars>>

\* client.py:150-167, streamlit_app.py:74-84, Scrap_Translate/agent.py:135-138
Parse ==
    /\ cpc = "parsing"
    /\ outcome' = ParseOutcome(shim, response[1])
    /\ cpc' = outcome'.kind
    /\ UNCHANGED <<calls, shim, agent_name, card, lookups, sends, messageId, sentIds, response,
                   serverVars>>

ClientNext ==
    \/ ClientCall
    \/ ResolveOk
    \/ ResolveFail
    \/ SendOk
    \/ SendFail
    \/ Parse

\* ================================================== the start of the server
\*   agents/search_agent/__main__.py  main
\*   agents/search_agent/agent.py     MultiURLBrowser._build_agent
\* An environment variable that is not set.
Unset == "<unset>"
\* __main__.py:47: the port when neither PORT nor --port gives one
DefaultPort == 8080
FlagHosts == {<<>>, <<"127.0.0.1">>}
FlagPorts == {<<>>, <<0>>, <<9000>>}
FlagUrls == {<<>>, <<"">>, <<"http://flag/">>}
EnvPorts == {Unset, "8081"}
EnvUrls == {Unset, "", "http://env/"}
EnvKeys == {Unset, "", "fc-env"}
\* agent.py:105: the key written in the source (shortened here)
HardCodedKey == "fc-e6aa..."

\* int() of the strings PORT takes
IntOf(str) == CASE str = "8081" -> 8081

\* __main__.py:47: int(os.environ.get("PORT", port or 8080))
EffectivePort(port, env) ==
    IF env.PORT # Unset THEN IntOf(env.PORT)
    ELSE IF port # <<>> /\ port[1] # 0 THEN port[1]
    ELSE DefaultPort

\* __main__.py:50: host or ("0.0.0.0" if "PORT" in os.environ else "localhost")
EffectiveHost(host, env) ==
    IF host # <<>> /\ host[1] # "" THEN host[1]
    ELSE IF env.PORT # Unset THEN "0.0.0.0"
    ELSE "localhost"

\* __main__.py:55-58: public_url or os.environ.get("PUBLIC_URL"), and the
\* local address when that is None or empty
EffectiveUrl(public_url, env, host, port) ==
    LET final_public_url ==
            IF public_url # <<>> /\ public_url[1] # "" THEN public_url[1]
            ELSE IF env.PUBLIC_URL # Unset THEN env.PUBLIC_URL
            ELSE ""
    IN IF final_public_url # "" THEN final_public_url
       ELSE "http://" \o host \o ":" \o ToString(port) \o "/"

\* agent.py:86-88 and 102-106: _build_agent raises ValueError when the
\* variable is unset or empty, and otherwise hands the tool process the key
\* written at line 105
BuildOutcome(env) ==
    IF env.FIRECRAWL_API_KEY \in {Unset, ""}
    THEN [pc |-> "raised", error |-> "ValueError", key |-> Unset]
    ELSE [pc |-> "serving", error |-> "", key |-> HardCodedKey]

BootInit ==
    /\ bootpc = "idle"
    /\ args = [host |-> <<>>, port |-> <<>>, public_url |-> <<>>]
    /\ environ = [PORT |-> Unset, PUBLIC_URL |-> Unset, FIRECRAWL_API_KEY |-> Unset]
    /\ bind = [host |-> "", port |-> 0, url |-> ""]
    /\ toolEnv = Unset
    /\ bootError = ""

\* __main__.py:33-58: the process is started with its flags and environment
\* and main works out where it listens
Main ==
    /\ bootpc = "idle"
    /\ \E host \in FlagHosts, port \in FlagPorts, public_url \in FlagUrls,
          envPort \in EnvPorts, envUrl \in EnvUrls, envKey \in EnvKeys :
          LET env == [PORT |-> envPort, PUBLIC_URL |-> envUrl,
                      FIRECRAWL_API_KEY |-> envKey]
              h == EffectiveHost(host, env)
              n == EffectivePort(port, env)
          IN /\ args' = [host |-> host, port |-> port, public_url |-> public_url]
             /\ environ' = env
             /\ bind' = [host |-> h, port |-> n,
                         url |-> EffectiveUrl(public_url, env, h, n)]
    /\ bootpc' = "configured"
    /\ UNCHANGED <<toolEnv, bootError, pc, runVars, sessVars, genVars, err, queue,
                   tasks, nextId, lastCancel, storeVars, clientVars>>

\* __main__.py:109, task_manager.py:60, agent.py:61 and 84-111:
\* AgentTaskManager() builds MultiURLBrowser(), which builds the agent
BuildAgent ==
    /\ bootpc = "configured"
    /\ bootpc' = BuildOutcome(environ).pc
    /\ bootError' = BuildOutcome(environ).error
    /\ toolEnv' = BuildOutcome(environ).key
    /\ UNCHANGED <<args, environ, bind, pc, runVars, sessVars, genVars, err, queue,
                   tasks, nextId, lastCancel, storeVars, clientVars>>

BootNext ==
    \/ Main
    \/ BuildAgent

\* --------------------------------------------------------------------- Init
Init ==
    /\ pc = [r \in Runs |-> "idle"]
    /\ ctxTask = [r \in Runs |-> NoTask]
    /\ taskId = [r \in Runs |-> NoTask]
    /\ contextId = [r \in Runs |-> NoSession]
    /\ session = [r \in Runs |-> NoSession]
    /\ lookup = [r \in Runs |-> "pending"]
    /\ sessions = {}
    /\ creates = [s \in Contexts |-> 0]
    /\ engineLog = [r \in Runs |-> <<>>]
    /\ updates = [r \in Runs |-> <<>>]
    /\ gen = [r \in Runs |-> "unstarted"]
    /\ err = [r \in Runs |-> ""]
    /\ queue = [r \in Runs |-> <<>>]
    /\ tasks = [t \in TaskIds |-> [contextId |-> NoSession, state |-> "none"]]
    /\ nextId = 0
    /\ lastCancel = [task |-> NoTask, raised |-> "none", returned |-> NoTask,
                     enqueued |-> <<>>]
    /\ ClientInit
    /\ store = [t \in TaskIds |-> "none"]
    /\ consumed = [r \in Runs |-> 0]
    /\ BootInit

\* ------------------------------------------------- AgentTaskManager.execute
\* A task record enqueued for every request.
EventsAtStartAlways(cur, id, ctx) == <<TaskEvent(id, ctx)>>

\* task_manager.py:85-91: the events enqueued before the agent is invoked
EventsAtStart(cur, id, ctx) ==
    IF cur = NoTask THEN <<TaskEvent(id, ctx)>> ELSE <<>>

\* task_manager.py:80-94.  The request either carries no task (a new one is
\* made from the message, with a fresh id and the message's context id) or
\* carries a task that exists.  Runs are numbered in the order they start.
ExecuteStart(r) ==
    /\ pc[r] = "idle"
    /\ \A q \in Runs : q < r => pc[q] # "idle"
    /\ \/ \E ctx \in Contexts :
            /\ ctxTask' = [ctxTask EXCEPT ![r] = NoTask]
            /\ taskId' = [taskId EXCEPT ![r] = nextId + 1]
            /\ contextId' = [contextId EXCEPT ![r] = ctx]
            /\ nextId' = nextId + 1
            /\ Enqueue(r, nextId + 1, EventsAtStart(NoTask, nextId + 1, ctx))
       \/ \E t \in Tasks :
            /\ ctxTask' = [ctxTask EXCEPT ![r] = t]
            /\ taskId' = [taskId EXCEPT ![r] = t]
            /\ contextId' = [contextId EXCEPT ![r] = tasks[t].contextId]
            /\ nextId' = nextId
            /\ Enqueue(r, t, EventsAtStart(t, t, tasks[t].contextId))
    /\ pc' = [pc EXCEPT ![r] = "get_session"]
    /\ UNCHANGED <<sessVars, genVars, err, lastCancel, clientVars, storeVars, bootVars>>

\* A session created on every invocation, found or not.
PcAfterLookupAlwaysCreate(found) == "create_session"

\* agent.py:137-138: a session is created only if the lookup found none
PcAfterLookup(found) == IF found THEN "stream" ELSE "create_session"

\* agent.py:131-138: the session lookup, with session_id = task.contextId
\* (task_manager.py:100)
InvokeGetSession(r) ==
    /\ pc[r] = "get_session"
    /\ gen' = [gen EXCEPT ![r] = "running"]
    /\ LET found == contextId[r] \in sessions
       IN /\ session' = [session EXCEPT ![r] = IF found THEN contextId[r] ELSE NoSession]
          /\ lookup' = [lookup EXCEPT ![r] = IF found THEN "found" ELSE "absent"]
          /\ pc' = [pc EXCEPT ![r] = PcAfterLookup(found)]
    /\ UNCHANGED <<runVars, sessions, creates, engineLog, updates, err, queue, tasks,
                   nextId, lastCancel, clientVars, storeVars, bootVars>>

\* agent.py:139-145
InvokeCreateSession(r) ==
    /\ pc[r] = "create_session"
    /\ sessions' = sessions \cup {contextId[r]}
    /\ creates' = [creates EXCEPT ![contextId[r]] = @ + 1]
    /\ session' = [session EXCEPT ![r] = contextId[r]]
    /\ pc' = [pc EXCEPT ![r] = "stream"]
    /\ UNCHANGED <<runVars, lookup, genVars, err, queue, tasks, nextId, lastCancel, clientVars, storeVars, bootVars>>

\* agent.py:155-178 and task_manager.py:100-127: the engine produces an
\* event, invoke yields its update, execute reports it.
EngineYield(r) ==
    /\ pc[r] = "stream"
    /\ SumLen(engineLog, Runs) < MaxEvents
    /\ \E event \in EngineEvents :
         LET item == UpdateOf(event)
         IN /\ engineLog' = [engineLog EXCEPT ![r] = Append(@, event)]
            /\ updates' = [updates EXCEPT ![r] = Append(@, item)]
            /\ Enqueue(r, taskId[r], <<StatusEvent(taskId[r], contextId[r],
                                                   StateOfUpdate(item), TextOfUpdate(item))>>)
            /\ pc' = [pc EXCEPT ![r] = PcAfterUpdate(item)]
    /\ UNCHANGED <<runVars, sessVars, gen, err, nextId, lastCancel, clientVars, storeVars, bootVars>>

\* agent.py:155 and task_manager.py:100: the engine's stream ends, so does
\* invoke's, the loop ends and execute returns.
EngineEnd(r) ==
    /\ pc[r] = "stream"
    /\ gen' = [gen EXCEPT ![r] = "exhausted"]
    /\ pc' = [pc EXCEPT ![r] = "done"]
    /\ UNCHANGED <<runVars, sessVars, engineLog, updates, err, queue, tasks, nextId,
                   lastCancel, clientVars, storeVars, bootVars>>

\* invoke covering the engine's failure with a Final of its own.
UpdatesOnRaiseFinal(e) == <<[is_task_complete |-> TRUE, content |-> ""]>>

\* agent.py:155-178: the updates invoke yields when the engine raises e
\* (the loop over run_async stands in no try block)
UpdatesOnRaise(e) == <<>>

\* agent.py:155 and task_manager.py:129-132: the engine raises at a step of
\* its stream, invoke lets the exception through and execute catches it.
\* (The in-memory session service and the event queue do not raise.)
EngineRaise(r) ==
    /\ pc[r] = "stream"
    /\ \E e \in ErrorTexts :
          /\ err' = [err EXCEPT ![r] = e]
          /\ updates' = [updates EXCEPT ![r] = @ \o UpdatesOnRaise(e)]
    /\ gen' = [gen EXCEPT ![r] = "raised"]
    /\ pc' = [pc EXCEPT ![r] = "except"]
    /\ UNCHANGED <<runVars, sessVars, engineLog, queue, tasks, nextId, lastCancel, clientVars, storeVars, bootVars>>

\* task_manager.py:132-136
ExceptUpdate(r) ==
    /\ pc[r] = "except"
    /\ Enqueue(r, taskId[r], <<StatusEvent(taskId[r], contextId[r], "failed",
                                            ErrorMessage(err[r]))>>)
    /\ pc' = [pc EXCEPT ![r] = "reraise"]
    /\ UNCHANGED <<runVars, sessVars, genVars, err, nextId, lastCancel, clientVars, storeVars, bootVars>>

\* The except branch ending without the raise.
PcAfterFailedUpdateSwallowed(e) == "done"

\* task_manager.py:137: the bare raise that ends the except branch
PcAfterFailedUpdate(e) == "raised"

\* task_manager.py:137
Reraise(r) ==
    /\ pc[r] = "reraise"
    /\ pc' = [pc EXCEPT ![r] = PcAfterFailedUpdate(err[r])]
    /\ UNCHANGED <<runVars, sessVars, genVars, err, queue, tasks, nextId, lastCancel, clientVars, storeVars, bootVars>>

\* task_manager.py:124-127: the delay ends, break, and execute returns; the
\* generator is left suspended at its yield.
SleepDone(r) ==
    /\ pc[r] = "sleep"
    /\ pc' = [pc EXCEPT ![r] = "done"]
    /\ UNCHANGED <<runVars, sessVars, genVars, err, queue, tasks, nextId, lastCancel, clientVars, storeVars, bootVars>>

\* task_manager.py:120-129: an exception raised in the try block after the
\* completed event is on the queue and before the break (by the rest of
\* update_status or by the delay); the except branch catches it.
SleepRaise(r) ==
    /\ pc[r] = "sleep"
    /\ \E e \in ErrorTexts : err' = [err EXCEPT ![r] = e]
    /\ pc' = [pc EXCEPT ![r] = "except"]
    /\ UNCHANGED <<runVars, sessVars, genVars, queue, tasks, nextId, lastCancel,
                   clientVars, storeVars, bootVars>>

\* -------------------------------------------------- AgentTaskManager.cancel
\* cancel handing back the request's task instead of raising.
CancelOutcomeReturnsTask(cur) ==
    IF cur = NoTask
    THEN [task |-> cur, raised |-> "UnsupportedOperationError", returned |-> NoTask,
          enqueued |-> <<>>]
    ELSE [task |-> cur, raised |-> "nothing", returned |-> cur, enqueued |-> <<>>]

\* task_manager.py:155-156: how a cancel request whose current task is cur
\* ends: what it raises, the Task it returns, the events it enqueues
CancelOutcome(cur) ==
    [task |-> cur, raised |-> "UnsupportedOperationError", returned |-> NoTask,
     enqueued |-> <<>>]

\* cancel marking the task canceled.
CancelStateCanceled(st) == "canceled"

\* task_manager.py:155-156: the state cancel leaves a task of state st in
CancelState(st) == st

\* task_manager.py:139-156: request.current_task is a task that exists, or None
Cancel ==
    \E cur \in Tasks \cup {NoTask} :
        /\ lastCancel' = CancelOutcome(cur)
        /\ tasks' = IF cur = NoTask THEN tasks
                    ELSE [tasks EXCEPT ![cur].state = CancelState(@)]
        /\ UNCHANGED <<pc, runVars, sessVars, genVars, err, queue, nextId, clientVars, storeVars, bootVars>>

Next ==
    \/ \E r \in Runs :
          \/ ExecuteStart(r)
          \/ InvokeGetSession(r)
          \/ InvokeCreateSession(r)
          \/ EngineYield(r)
          \/ EngineEnd(r)
          \/ EngineRaise(r)
          \/ ExceptUpdate(r)
          \/ Reraise(r)
          \/ SleepDone(r)
    \/ Cancel

Spec == Init /\ [][Next]_vars

\* __main__.py:106-112: AgentTaskManager is built without the task store; the
\* store belongs to the request handler, which takes the events off the queue
\* of a request in order and saves the state each one announces.
Consume(r) ==
    /\ consumed[r] < Len(queue[r])
    /\ LET e == queue[r][consumed[r] + 1]
       IN store' = [store EXCEPT ![e.taskId] = e.state]
    /\ consumed' = [consumed EXCEPT ![r] = @ + 1]
    /\ UNCHANGED <<pc, runVars, sessVars, genVars, err, queue, tasks, nextId,
                   lastCancel, clientVars, bootVars>>

StoreNext ==
    \/ Next
    \/ \E r \in Runs : Consume(r)

\* The server with the request handler recording what it takes off the queues.
StoreSpec == Init /\ [][StoreNext]_vars

\* ------------------------------- MultiURLBrowser.invoke, called on its own
\* agent.py:113-129: invoke is called with a session id by a caller that
\* takes every update it yields (no task, no event queue); one such call
\* is followed from its start to its end
DirectStart(r) ==
    /\ \A q \in Runs : pc[q] = "idle" /\ r <= q
    /\ \E session_id \in Contexts : contextId' = [contextId EXCEPT ![r] = session_id]
    /\ pc' = [pc EXCEPT ![r] = "get_session"]
    /\ UNCHANGED <<ctxTask, taskId, sessVars, genVars, err, queue, tasks, nextId,
                   lastCancel, clientVars, storeVars, bootVars>>

\* agent.py:155-178: the engine produces an event and invoke yields its update
DirectYield(r) ==
    /\ pc[r] = "stream"
    /\ SumLen(engineLog, Runs) < MaxEvents
    /\ \E event \in EngineEvents :
          /\ engineLog' = [engineLog EXCEPT ![r] = Append(@, event)]
          /\ updates' = [updates EXCEPT ![r] = Append(@, UpdateOf(event))]
    /\ UNCHANGED <<pc, runVars, sessVars, gen, err, queue, tasks, nextId, lastCancel,
                   clientVars, storeVars, bootVars>>

\* agent.py:155: the engine's stream ends, and with it invoke's
DirectEnd(r) ==
    /\ pc[r] = "stream"
    /\ gen' = [gen EXCEPT ![r] = "exhausted"]
    /\ pc' = [pc EXCEPT ![r] = "done"]
    /\ UNCHANGED <<runVars, sessVars, engineLog, updates, err, queue, tasks, nextId,
                   lastCancel, clientVars, storeVars, bootVars>>

\* agent.py:155: the engine raises and invoke lets the exception through
DirectRaise(r) ==
    /\ pc[r] = "stream"
    /\ \E e \in ErrorTexts :
          /\ err' = [err EXCEPT ![r] = e]
          /\ updates' = [updates EXCEPT ![r] = @ \o UpdatesOnRaise(e)]
    /\ gen' = [gen EXCEPT ![r] = "raised"]
    /\ pc' = [pc EXCEPT ![r] = "raised"]
    /\ UNCHANGED <<runVars, sessVars, engineLog, queue, tasks, nextId, lastCancel,
                   clientVars, storeVars, bootVars>>

InvokeNext ==
    \E r \in Runs :
        \/ DirectStart(r)
        \/ InvokeGetSession(r)
        \/ InvokeCreateSession(r)
        \/ DirectYield(r)
        \/ DirectEnd(r)
        \/ DirectRaise(r)

\* One call of invoke alone, every update it yields taken.
InvokeSpec == Init /\ [][InvokeNext]_vars

FaultNext ==
    \/ Next
    \/ \E r \in Runs : SleepRaise(r)

\* The server where a step after the completed update may raise as well.
FaultSpec == Init /\ [][FaultNext]_vars

\* The start of the server process alone.
BootSpec == Init /\ [][BootNext]_vars

\* The client shims alone, the server at rest.
ClientSpec == Init /\ [][ClientNext]_vars


\* ==================================================================== claims
Terminals(evs) == Len(SelectSeq(evs, IsTerminal))
Finals(us) == Len(SelectSeq(us, LAMBDA u : u.is_task_complete))
IsWorking(e) == e.kind = "status" /\ e.state = "working"
IsFailed(e) == e.kind = "status" /\ e.state = "failed"
HasCompleted(evs) == \E i \in DOMAIN evs : evs[i].kind = "status" /\ evs[i].state = "completed"
Returned(r) == pc[r] \in {"done", "raised"}
\* Progress updates, then one Final, the last.
ProgressThenFinal(us) ==
    /\ us # <<>>
    /\ Last(us).is_task_complete
    /\ Finals(us) = 1

\* C1: a run of execute that returns without an error after consuming
\* updates that end in exactly one Final has enqueued exactly one terminal
\* status event, and that event is the last one it enqueued.
C1_OneTerminalLast ==
    \A r \in Runs :
        (pc[r] = "done" /\ ProgressThenFinal(updates[r]))
            => /\ Terminals(queue[r]) = 1
               /\ IsTerminal(Last(queue[r]))

\* A run returned after two Progress updates and a Final.
C1_Witness ==
    \E r \in Runs :
        /\ pc[r] = "done"
        /\ ProgressThenFinal(updates[r])
        /\ Len(updates[r]) = 3

\* C2: once execute has returned (normally or by raising) the run has
\* enqueued exactly one terminal status event and its task is not left in
\* submitted or working.
C2_TerminalOnReturn ==
    \A r \in Runs :
        Returned(r)
            => /\ Terminals(queue[r]) = 1
               /\ tasks[taskId[r]].state \notin {"submitted", "working"}

\* C3: once a task has reached completed or failed, its state stays what
\* it is and no run enqueues a further event for it.
C3_NoEventAfterTerminal ==
    [][\A t \in TaskIds :
          tasks[t].state \in {"completed", "failed"}
              => /\ tasks'[t].state = tasks[t].state
                 /\ \A r \in Runs :
                      SelectSeq(queue'[r], LAMBDA e : e.taskId = t) = TaskEvents(r, t)]_vars

\* C4: a run for a request without a task that has returned has enqueued
\* the task record, then only working status events, then one terminal
\* status event.
C4_CreationWorkingTerminal ==
    \A r \in Runs :
        (Returned(r) /\ ctxTask[r] = NoTask)
            => LET evs == queue[r]
               IN /\ Len(evs) >= 2
                  /\ evs[1].kind = "task"
                  /\ IsTerminal(Last(evs))
                  /\ \A i \in 2..(Len(evs) - 1) : IsWorking(evs[i])

\* C5: when execute has re-raised an error caught while invoking the
\* agent, the last event the run enqueued is a failed status with non-empty
\* text (so it was enqueued before the re-raise), and failed is the state
\* recorded for the task unless another run works on the same task.
C5_FailedBeforeReraise ==
    \A r \in Runs :
        pc[r] = "raised"
            => /\ queue[r] # <<>>
               /\ IsFailed(Last(queue[r]))
               /\ Last(queue[r]).text # ""
               /\ Last(queue[r]).taskId = taskId[r]
               /\ (\A q \in Runs \ {r} : taskId[q] # taskId[r])
                     => tasks[taskId[r]].state = "failed"

\* A run re-raised an error whose str() is empty, raised after a working event.
C5_Witness ==
    \E r \in Runs :
        /\ pc[r] = "raised"
        /\ err[r] = ""
        /\ \E i \in DOMAIN queue[r] : IsWorking(queue[r][i])

\* C6: every cancel request ends by raising UnsupportedOperationError and
\* returns no Task.
C6_CancelAlwaysRaises ==
    lastCancel.raised # "none"
        => /\ lastCancel.raised = "UnsupportedOperationError"
           /\ lastCancel.returned = NoTask

\* A cancel request for a task that is completed has been handled.
C6_Witness ==
    /\ lastCancel.raised # "none"
    /\ lastCancel.task # NoTask
    /\ tasks[lastCancel.task].state = "completed"

\* C7: a cancel request changes no task's state, enqueues nothing and
\* leaves every run of execute where it is.
C7_CancelChangesNothing ==
    [][Cancel => /\ UNCHANGED <<tasks, queue, pc, runVars, sessVars, genVars, err>>
                 /\ lastCancel'.enqueued = <<>>]_vars

\* A cancel request for a task was handled while the run that created the
\* task was in flight, and the run went on to enqueue a working event.
C7_Witness ==
    \E r \in Runs :
        /\ lastCancel.raised # "none"
        /\ lastCancel.task = taskId[r]
        /\ ctxTask[r] = NoTask
        /\ pc[r] = "stream"
        /\ IsWorking(Last(queue[r]))

\* C8: once a run has enqueued the completed status it consumes no
\* further update and enqueues no further event.
C8_FirstFinalWins ==
    [][\A r \in Runs :
          HasCompleted(queue[r])
              => /\ queue'[r] = queue[r]
                 /\ updates'[r] = updates[r]
                 /\ engineLog'[r] = engineLog[r]
                 /\ gen'[r] = gen[r]]_vars

\* A run has returned after the completed status while its generator is
\* not exhausted and the engine can still produce events.
C8_Witness ==
    \E r \in Runs :
        /\ pc[r] = "done"
        /\ HasCompleted(queue[r])
        /\ gen[r] = "running"
        /\ SumLen(engineLog, Runs) < MaxEvents

\* C9: when invoke's sequence has ended without an error, the updates it
\* yielded are Progress updates followed by exactly one Final, the last.
C9_ProgressThenOneFinal ==
    \A r \in Runs : gen[r] = "exhausted" => ProgressThenFinal(updates[r])

\* C10: the content of a Final update, and of the completed status event
\* made from it, is the concatenation of the texts of all parts of the final
\* engine events produced ("" when there is none).
C10_FinalIsConcatenation ==
    \A r \in Runs : \A i \in DOMAIN updates[r] :
        updates[r][i].is_task_complete
            => LET finalParts == [j \in 1..i |->
                                     IF engineLog[r][j].final
                                     THEN Concat(engineLog[r][j].parts) ELSE ""]
               IN /\ updates[r][i].content = Concat(finalParts)
                  /\ Last(queue[r]).text = Concat(finalParts)


\* C11: a session is created exactly by the invocations whose lookup found
\* none; an invocation that finds the session of its id reuses it and creates
\* none, so invocations of one session id that follow one another create the
\* session once.
Resolved(r) == pc[r] \notin {"idle", "get_session", "create_session"}
CreatedBy(s) ==
    {r \in Runs : contextId[r] = s /\ lookup[r] = "absent" /\ pc[r] # "create_session"}
C11_CreateIfAbsentReuseOtherwise ==
    /\ \A s \in Contexts :
          /\ creates[s] = Cardinality(CreatedBy(s))
          /\ s \in sessions <=> creates[s] >= 1
    /\ \A r \in Runs :
          /\ Resolved(r) => session[r] = contextId[r] /\ session[r] \in sessions
          /\ lookup[r] = "found" => creates[contextId[r]] >= 1

\* The second invocation for a session id found the session the first made.
C11_Witness ==
    /\ Resolved(1) /\ Resolved(2)
    /\ contextId[1] = contextId[2]
    /\ lookup[1] = "absent" /\ lookup[2] = "found"
    /\ creates[contextId[1]] = 1

\* C12: when the engine raises, invoke yields nothing for it and nothing
\* after it: the updates yielded before stay as they are, and the error
\* reaches the consumer of the sequence.
C12_RaisePropagates ==
    [][\A r \in Runs :
          /\ (gen[r] # "raised" /\ gen'[r] = "raised")
                => updates'[r] = updates[r] /\ pc'[r] = "except"
          /\ gen[r] = "raised" => updates'[r] = updates[r] /\ gen'[r] = "raised"]_vars

\* The engine raised after a Progress update was yielded.
C12_Witness ==
    \E r \in Runs :
        /\ gen[r] = "raised"
        /\ pc[r] = "raised"
        /\ updates[r] # <<>>
        /\ Finals(updates[r]) = 0

\* C17: a run enqueues a task record if and only if its request carried
\* no task, as its first event and before invoke is started; a run whose
\* request carried a task works on that task and enqueues events of it only.
C17_CreationIffNoTask ==
    \A r \in Runs :
        pc[r] # "idle"
            => LET records == SelectSeq(queue[r], LAMBDA e : e.kind = "task")
               IN /\ ctxTask[r] = NoTask <=> records # <<>>
                  /\ Len(records) <= 1
                  /\ records # <<>> => queue[r][1].kind = "task"
                  /\ ctxTask[r] # NoTask => taskId[r] = ctxTask[r]
                  /\ \A i \in DOMAIN queue[r] : queue[r][i].taskId = taskId[r]
                  /\ (pc[r] = "get_session" /\ ctxTask[r] = NoTask)
                        => gen[r] = "unstarted" /\ Len(queue[r]) = 1

\* One run made a task and another run continued it.
C17_Witness ==
    \E r, q \in Runs :
        /\ ctxTask[r] = NoTask /\ pc[r] = "done"
        /\ ctxTask[q] = taskId[r] /\ pc[q] = "done"
        /\ queue[q] # <<>>

\* C18: the status events a run has enqueued for its updates are, in
\* order, one working event per Progress update with that update's message,
\* and the completed event with the content of the first Final.
StatusOfUpdates(evs) ==
    SelectSeq(evs, LAMBDA e : e.kind = "status" /\ e.state # "failed")
C18_OneEventPerUpdate ==
    \A r \in Runs :
        LET evs == StatusOfUpdates(queue[r])
        IN /\ Len(evs) = Len(updates[r])
           /\ \A i \in DOMAIN evs :
                IF updates[r][i].is_task_complete
                THEN /\ evs[i].state = "completed"
                     /\ evs[i].text = updates[r][i].content
                     /\ i = Len(evs)
                ELSE /\ evs[i].state = "working"
                     /\ evs[i].text = updates[r][i].updates

\* Two Progress updates and a Final with text were reported.
C18_Witness ==
    \E r \in Runs :
        /\ Len(updates[r]) = 3
        /\ Last(updates[r]).is_task_complete
        /\ Last(updates[r]).content = "a"
        /\ pc[r] = "done"

\* C19: the state the task store holds for a task is at least as advanced
\* as the state the latest event enqueued for that task announces.
Advance(state) ==
    CASE state = "none" -> 0
      [] state = "submitted" -> 1
      [] state = "working" -> 2
      [] OTHER -> 3
C19_RecordedBeforeEmitted ==
    \A t \in TaskIds : Advance(store[t]) >= Advance(tasks[t].state)

\* C20: no two runs of execute are in flight for the same task.
InFlight(r) == pc[r] \notin {"idle", "done", "raised"}
C20_OneInvocationPerTask ==
    \A r, q \in Runs :
        (r # q /\ InFlight(r) /\ InFlight(q)) => taskId[r] # taskId[q]


\* C13: an operation that received a response lacking one of the fields of
\* result.status.message.parts[0].text ends by returning the sentinel.
Finished == cpc \in {"returned", "raised"}
\* The response record has a result with a status with a message whose first
\* part has a text.
HasFirstText(resp) ==
    /\ resp.result # <<>>
    /\ resp.result[1].kind = "task"
    /\ resp.result[1].status.message # <<>>
    /\ resp.result[1].status.message[1].parts # <<>>
    /\ resp.result[1].status.message[1].parts[1].text # <<>>
C13_SentinelOnMalformed ==
    (Finished /\ response # <<>> /\ ~HasFirstText(response[1]))
        => outcome = [kind |-> "returned", value |-> Sentinel]

\* C14: an operation that received a response whose first part of the
\* status message has the text t ends by returning t.
C14_ReturnsFirstText ==
    (Finished /\ response # <<>> /\ HasFirstText(response[1]))
        => outcome = [kind |-> "returned",
                      value |-> response[1].result[1].status.message[1].parts[1].text[1]]

\* The response had two parts, "hello" first, and "hello" was returned.
C14_Witness ==
    /\ Finished /\ response # <<>> /\ HasFirstText(response[1])
    /\ Len(response[1].result[1].status.message[1].parts) = 2
    /\ response[1].result[1].status.message[1].parts[2].text = <<"">>
    /\ outcome = [kind |-> "returned", value |-> "hello"]

\* C15: the card is looked up at most once per operation; when the lookup
\* fails the operation ends by raising, having sent nothing; a message is
\* sent only with a card resolved.
C15_NoSendWithoutCard ==
    /\ lookups <= 1
    /\ sends > 0 => card # NoCard
    /\ cpc \in {"sending", "parsing"} => card # NoCard /\ lookups = 1
    /\ (cpc # "idle" /\ cpc # "resolving" /\ card = NoCard)
          => /\ outcome = [kind |-> "raised", value |-> "RuntimeError"]
             /\ cpc = "raised"
             /\ lookups = 1
             /\ sends = 0
             /\ response = <<>>

\* A second operation failed at the lookup after a first one had sent a message.
C15_Witness ==
    /\ calls = 2
    /\ cpc = "raised" /\ card = NoCard /\ lookups = 1
    /\ Len(sentIds) = 1

\* C16: an operation that sends has made exactly one message/send request
\* when it ends, however it ends, and no two requests carry the same messageId.
C16_OneSendFreshId ==
    /\ sends <= 1
    /\ (Finished /\ card # NoCard /\ shim # "list_agents") => sends = 1
    /\ cpc = "parsing" => sends = 1
    /\ \A i, j \in DOMAIN sentIds : i # j => sentIds[i] # sentIds[j]
    /\ \A i \in DOMAIN sentIds : sentIds[i] # NoId

\* Two operations sent a message each; the second ended in a transport error.
C16_Witness ==
    /\ Len(sentIds) = 2
    /\ outcome = [kind |-> "raised", value |-> "A2AClientHTTPError"]
    /\ sends = 1

\* C21: the agent call_agent sends its message to is the one whose card
\* name is agent_name.
C21_ContactsNamedAgent ==
    (shim = "call_agent" /\ sends > 0) => card = agent_name

\* C22: once main has worked out where the server listens, the port is PORT
\* whenever PORT is set and the public URL is PUBLIC_URL whenever PUBLIC_URL
\* is set (to a URL, not to the empty string), whatever the flags are.
C22_EnvironmentTakesPrecedence ==
    bootpc # "idle"
        => /\ environ.PORT # Unset => bind.port = IntOf(environ.PORT)
           /\ environ.PUBLIC_URL \notin {Unset, ""} => bind.url = environ.PUBLIC_URL

\* C28: the key handed to the MCP tool process is the value of
\* FIRECRAWL_API_KEY in the environment, and building the agent raises
\* ValueError when the variable is unset.
C28_ToolKeyFromEnvironment ==
    /\ bootpc = "serving" => toolEnv = environ.FIRECRAWL_API_KEY
    /\ (bootpc \in {"serving", "raised"} /\ environ.FIRECRAWL_API_KEY = Unset)
          => bootpc = "raised" /\ bootError = "ValueError"

\* C23: a session id is created at most once, also when two invocations
\* with the same new session id interleave between lookup and creation.
C23_CreatedAtMostOnce ==
    \A s \in Contexts : creates[s] <= 1

\* C24: no run has enqueued both a completed and a failed status event.
C24_NotCompletedAndFailed ==
    \A r \in Runs :
        ~ /\ \E i \in DOMAIN queue[r] :
                queue[r][i].kind = "status" /\ queue[r][i].state = "completed"
          /\ \E i \in DOMAIN queue[r] :
                queue[r][i].kind = "status" /\ queue[r][i].state = "failed"

\* C25: a run that has ended raised if and only if it enqueued a failed
\* status event; a run that ended with completed as its last event returned.
EmittedFailed(r) ==
    \E i \in DOMAIN queue[r] : queue[r][i].kind = "status" /\ queue[r][i].state = "failed"
C25_RaisesIffFailed ==
    \A r \in Runs :
        /\ pc[r] = "raised" => EmittedFailed(r)
        /\ pc[r] = "done" => ~EmittedFailed(r)
        /\ (pc[r] \in {"done", "raised"} /\ queue[r] # <<>>
               /\ Last(queue[r]).state = "completed") => pc[r] = "done"

\* One run returned after completed, another raised after failed.
C25_Witness ==
    \E r, q \in Runs :
        /\ pc[r] = "done" /\ queue[r] # <<>> /\ Last(queue[r]).state = "completed"
        /\ pc[q] = "raised" /\ Last(queue[q]).state = "failed"

\* C26: every event a run enqueues carries the id and the context id of
\* the one task the run works on, the session id the run passes to invoke
\* is that context id, and runs on different tasks share no event id.
C26_EventsCarryOwnTask ==
    \A r \in Runs :
        /\ \A i \in DOMAIN queue[r] :
               /\ queue[r][i].taskId = taskId[r]
               /\ queue[r][i].contextId = contextId[r]
        /\ pc[r] # "idle" => contextId[r] = tasks[taskId[r]].contextId
        /\ session[r] # NoSession => session[r] = contextId[r]
        /\ \A q \in Runs :
               taskId[q] # taskId[r]
                  => \A i \in DOMAIN queue[r], j \in DOMAIN queue[q] :
                        queue[r][i].taskId # queue[q][j].taskId

\* Two runs on different tasks with different contexts ran at the same
\* time and each enqueued status events.
C26_Witness ==
    \E r, q \in Runs :
        /\ taskId[r] # taskId[q] /\ contextId[r] # contextId[q]
        /\ pc[r] = "stream" /\ pc[q] = "stream"
        /\ Len(queue[r]) >= 2 /\ Len(queue[q]) >= 2

\* C27: the updates invoke has yielded are, in order, one per engine event
\* produced: for a final response a Final with the text of the event's last
\* part ("" when it has no part or the part no text), otherwise a Progress
\* with the fixed message; events after a final one are treated the same.
C27_OneUpdatePerEvent ==
    \A r \in Runs :
        /\ Len(updates[r]) = Len(engineLog[r])
        /\ \A i \in DOMAIN engineLog[r] :
              LET event == engineLog[r][i]
              IN IF event.final
                 THEN updates[r][i] =
                        [is_task_complete |-> TRUE,
                         content |-> IF event.parts = <<>> THEN ""
                                     ELSE event.parts[Len(event.parts)]]
                 ELSE updates[r][i] =
                        [is_task_complete |-> FALSE,
                         updates |-> "Processing the web crawling request..."]

\* A final event with the parts "a", "" was followed by a second final
\* event and by a non-final one, and three updates were yielded.
C27_Witness ==
    \E r \in Runs :
        /\ Len(updates[r]) = 3
        /\ engineLog[r][1] = [final |-> TRUE, parts |-> <<"a", "">>]
        /\ engineLog[r][2].final
        /\ ~engineLog[r][3].final
        /\ gen[r] = "exhausted"

====
